---- MODULE Spec2Model ----
(***************************************************************************)
(* The client-side simulation state store of agent-grid-sim               *)
(* (apps/frontend/src/context/SimulationContext.tsx), the API client it   *)
(* calls (apps/frontend/src/lib/api.ts) and the guards the page puts on   *)
(* its controls (apps/frontend/src/pages/SimulationPage.tsx).             *)
(*                                                                         *)
(* Every async function of the store is cut at its awaits: one action     *)
(* starts the call (the synchronous prefix up to the first await), one    *)
(* action per awaited request delivers the request's outcome and runs the *)
(* continuation up to the next await or to the end of the function.       *)
(* The backend is the environment: a step counter from which every        *)
(* response body is derived, and a free choice of each request's outcome. *)
(***************************************************************************)
EXTENDS Integers, Sequences, FiniteSets, Bags, TLC

\* ------------------------------------------------------------------ bounds
MaxOps == 1      \* store calls that may be in flight together
MaxSteps == 1    \* backend step counter is capped here
MaxWidth == 3    \* widest grid handed to the grid view
MaxHeight == 3   \* tallest grid handed to the grid view
MaxStack == 3    \* activations the call stack holds before it overflows
MaxLogs == 2     \* longest list of lines handed to the message log

\* --------------------------------------------------------------- constants
Null == [tag |-> "null"]
Pending == [tag |-> "pending"]

FallbackLog == "Failed to connect to backend. Please ensure the backend server is running on http://localhost:8000"

BackendLines == <<"[Scout] Moved north.", "[Builder] Built at (1,0).",
                  "[Strategist] Plan ready.", "[Step 4] done", "[ERROR] x",
                  "[Scout] Moved east.", "[Builder] idle", "plain line">>

Outcomes == {"ok", "http_error", "network_error"}

\* ----------------------------------------------------- backend responses
\* GET /api/grid at backend step n
GridAt(n) == [tag |-> "grid", width |-> 2, height |-> 1, rev |-> n]
\* GET /api/logs at backend step n : {logs: string[]}
LogsAt(n) == [logs |-> SubSeq(BackendLines, 1, n + 1)]
\* GET /api/agents at backend step n : mapping agentId -> AgentState
AgentsAt(n) == {[id |-> "scout", rev |-> n]}
\* POST /api/step answered at backend step n
StepResultAt(n) == [grid |-> GridAt(n), logs |-> SubSeq(BackendLines, 1, n + 1),
                    agents |-> AgentsAt(n), step_count |-> n, status |-> "ok"]
\* GET /api/conditional-metrics, /api/phase-info, /api/health: one body each
MetricsBody == [tag |-> "metrics", mission_phase |-> "exploration"]
PhaseBody == [tag |-> "phase", current_phase |-> "exploration"]
HealthBody == [tag |-> "health", status |-> "healthy"]
\* the JSON body a backend sends along with a non-2xx status
ErrorBody == [tag |-> "error_body", detail |-> "Internal Server Error"]

Resp(b) == [tag |-> "ok", body |-> b]

\* ------------------------------------------------------------ API client
\* apiCall: resolves with the parsed body on a 2xx answer, throws otherwise
ApiCallThrows(outcome) == outcome # "ok"

\* healthCheck: fetch + response.json() without a response.ok test; it
\* throws only when fetch itself throws, and resolves with whatever JSON
\* body came back otherwise
HealthCheckThrows(outcome) == outcome = "network_error"

HealthCheckValue(outcome) == IF outcome = "ok" THEN HealthBody ELSE ErrorBody

\* r.f || d of the source: d when the body carries no field f
FieldOr(r, f, d) == IF f \in DOMAIN r THEN r[f] ELSE d

\* error messages set by the catch blocks
Err(m) == [tag |-> "error", message |-> m]

VARIABLES
  grid, logs, agents,                           \* basic snapshot
  conditionalMetrics, phaseInfo, healthStatus,  \* enhanced snapshot
  loading, stepping, error, connectionStatus, lastUpdated,
  mounted,       \* the provider's mount effect has run
  closureStatus, \* connectionStatus as bound in the timer callback's closure
  ops,           \* store calls in flight: a bag of call records
  bstep,         \* backend: simulation step counter
  ev,            \* what the step just taken was, where a property has to see it
  healthCheckInterval, \* the mount effect's interval: unset, set or cleared
  call,          \* API client: the function called and the transport's answer
  callResult,    \* API client: what the call resolved with or threw
  rendered,      \* GridMap: the cells of its last render
  slots,         \* how many store calls the run lets be in flight together
  showDebug, debugData,     \* SimulationPage: the debug panel
  debugHandler,             \* SimulationPage: activations of its debug handler
  showRawGrid, rawGridData, \* SimulationPage: the raw grid panel
  logPanel       \* MessageLog: the entries of its last render

basicVars == <<grid, logs, agents>>
enhancedVars == <<conditionalMetrics, phaseInfo, healthStatus>>
flagVars == <<loading, stepping, error, connectionStatus, lastUpdated>>
storeVars == <<basicVars, enhancedVars, flagVars>>

\* the page's own state and the log panel
pageVars == <<showDebug, debugData, debugHandler, showRawGrid, rawGridData, logPanel>>
\* the API client, the grid view, the page and the log panel taken on their own
componentVars == <<call, callResult, rendered, pageVars>>

vars == <<storeVars, mounted, closureStatus, ops, bstep, ev, healthCheckInterval,
          componentVars, slots>>

\* a call in flight: which function it is, which await it is suspended at, and
\* what fetchGrid / fetchLogs / fetchAgents of its Promise.all have answered
Idle == [kind |-> "idle", pc |-> "idle", g |-> Pending, l |-> Pending, a |-> Pending]

NewOp(kind, pc) == [Idle EXCEPT !.kind = kind, !.pc = pc]

InFlight == BagToSet(ops)
HasFree == BagCardinality(ops) < slots
NoneInFlight == ops = EmptyBag

NoEvent == [type |-> "none"]
TickEvent == [type |-> "tick"]
\* an enhanced batch of a call of `kind` settled; `failed` names the fetches the
\* backend did not answer with a 2xx
EnhancedEvent(kind, failed) == [type |-> "enhanced", kind |-> kind, failed |-> failed]

Now == [tag |-> "date"]

NoCall == [fn |-> "none"]
NotRendered == [tag |-> "not_rendered"]
\* the debug handler is not running: no activation of it exists
HandlerIdle == [phase |-> "idle", depth |-> 0, awaited |-> "none"]

\* the state after construction, in a run that lets n store calls overlap
InitWith(n) ==
  /\ grid = Null
  /\ logs = <<>>
  /\ agents = {}
  /\ conditionalMetrics = Null
  /\ phaseInfo = Null
  /\ healthStatus = Null
  /\ loading = TRUE
  /\ stepping = FALSE
  /\ error = Null
  /\ connectionStatus = "connecting"
  /\ lastUpdated = Null
  /\ mounted = FALSE
  /\ closureStatus = "connecting"
  /\ ops = EmptyBag
  /\ bstep = 0
  /\ ev = NoEvent
  /\ healthCheckInterval = "unset"
  /\ call = NoCall
  /\ callResult = Pending
  /\ rendered = NotRendered
  /\ slots = n
  /\ showDebug = FALSE
  /\ debugData = Null
  /\ debugHandler = HandlerIdle
  /\ showRawGrid = FALSE
  /\ rawGridData = Null
  /\ logPanel = NotRendered

Init == InitWith(MaxOps)

\* ---------------------------------------------- the store's code, by segment
\* Each definition is one stretch of a store function between two awaits and
\* says what it does to every field of the store.

\* loadAllData: try { setLoading(true); setError(null); setConnectionStatus('connecting')
LoadAllDataStart ==
  /\ loading' = TRUE
  /\ error' = Null
  /\ connectionStatus' = "connecting"
  /\ UNCHANGED <<basicVars, enhancedVars, stepping, lastUpdated>>

\* variant: a loadBasicData that leaves the logs to a later write
LoadBasicDataApplyWithoutLogs(g, l, a) ==
  /\ grid' = g
  /\ agents' = a
  /\ UNCHANGED <<logs, enhancedVars, flagVars>>

\* loadBasicData: Promise.all resolved with [g, l, a]
LoadBasicDataApply(g, l, a) ==
  /\ grid' = g
  /\ logs' = FieldOr(l, "logs", <<>>)
  /\ agents' = a
  /\ UNCHANGED <<enhancedVars, flagVars>>

\* loadEnhancedData: Promise.all resolved with [metrics, phase, health]
LoadEnhancedDataApply(m, p, h) ==
  /\ conditionalMetrics' = m
  /\ phaseInfo' = p
  /\ healthStatus' = h

\* variant: a loadAllData that returns without setConnectionStatus('connected')
LoadAllDataSuccessWithoutStatus ==
  /\ error' = Null
  /\ lastUpdated' = Now
  /\ loading' = FALSE
  /\ UNCHANGED <<basicVars, stepping, connectionStatus>>

\* loadAllData: after await loadEnhancedData(), and the finally
LoadAllDataSuccess ==
  /\ connectionStatus' = "connected"
  /\ error' = Null
  /\ lastUpdated' = Now
  /\ loading' = FALSE
  /\ UNCHANGED <<basicVars, stepping>>

\* variant: a catch block that reports the failure but keeps the snapshot,
\* as the catch block of step does
LoadAllDataCatchKeepingSnapshot ==
  /\ error' = Err("Failed to connect to backend")
  /\ connectionStatus' = "disconnected"
  /\ conditionalMetrics' = Null
  /\ phaseInfo' = Null
  /\ healthStatus' = Null
  /\ loading' = FALSE
  /\ UNCHANGED <<basicVars, stepping, lastUpdated>>

\* variant: a catch block that resets the basic snapshot only
LoadAllDataCatchKeepingEnhanced ==
  /\ error' = Err("Failed to connect to backend")
  /\ connectionStatus' = "disconnected"
  /\ grid' = Null
  /\ logs' = <<FallbackLog>>
  /\ agents' = {}
  /\ loading' = FALSE
  /\ UNCHANGED <<enhancedVars, stepping, lastUpdated>>

\* variant: a loadAllData catch that reports the error without
\* setConnectionStatus('disconnected')
LoadAllDataCatchWithoutStatus ==
  /\ error' = Err("Failed to connect to backend")
  /\ grid' = Null
  /\ logs' = <<FallbackLog>>
  /\ agents' = {}
  /\ conditionalMetrics' = Null
  /\ phaseInfo' = Null
  /\ healthStatus' = Null
  /\ loading' = FALSE
  /\ UNCHANGED <<stepping, connectionStatus, lastUpdated>>

\* loadAllData: catch block, and the finally
LoadAllDataCatch ==
  /\ error' = Err("Failed to connect to backend")
  /\ connectionStatus' = "disconnected"
  /\ grid' = Null
  /\ logs' = <<FallbackLog>>
  /\ agents' = {}
  /\ conditionalMetrics' = Null
  /\ phaseInfo' = Null
  /\ healthStatus' = Null
  /\ loading' = FALSE
  /\ UNCHANGED <<stepping, lastUpdated>>

\* step: try { setStepping(true); setError(null)
StepStart ==
  /\ stepping' = TRUE
  /\ error' = Null
  /\ UNCHANGED <<basicVars, enhancedVars, loading, connectionStatus, lastUpdated>>

\* variant: a step that drops its response while a load is running
StepApplyUnlessLoading(result) ==
  IF loading
    THEN UNCHANGED <<basicVars, enhancedVars, flagVars>>
    ELSE /\ grid' = FieldOr(result, "grid", Null)
         /\ logs' = FieldOr(result, "logs", <<>>)
         /\ agents' = FieldOr(result, "agents", {})
         /\ UNCHANGED <<enhancedVars, flagVars>>

\* variant: a step that appends the response's logs to the ones it holds
StepApplyAppendingLogs(result) ==
  /\ grid' = FieldOr(result, "grid", Null)
  /\ logs' = logs \o FieldOr(result, "logs", <<>>)
  /\ agents' = FieldOr(result, "agents", {})
  /\ UNCHANGED <<enhancedVars, flagVars>>

\* step: stepSimulation() resolved with result
StepApply(result) ==
  /\ grid' = FieldOr(result, "grid", Null)
  /\ logs' = FieldOr(result, "logs", <<>>)
  /\ agents' = FieldOr(result, "agents", {})
  /\ UNCHANGED <<enhancedVars, flagVars>>

\* step: after await loadEnhancedData(), and the finally
StepSuccess ==
  /\ connectionStatus' = "connected"
  /\ lastUpdated' = Now
  /\ stepping' = FALSE
  /\ UNCHANGED <<basicVars, loading, error>>

\* variant: a step without its finally block
StepCatchWithoutFinally ==
  /\ error' = Err("Failed to step simulation")
  /\ connectionStatus' = "disconnected"
  /\ UNCHANGED <<basicVars, enhancedVars, loading, stepping, lastUpdated>>

\* variant: a catch block that writes the fallback snapshot, as loadAllData's does
StepCatchWithFallback ==
  /\ error' = Err("Failed to step simulation")
  /\ connectionStatus' = "disconnected"
  /\ stepping' = FALSE
  /\ grid' = Null
  /\ logs' = <<FallbackLog>>
  /\ agents' = {}
  /\ UNCHANGED <<enhancedVars, loading, lastUpdated>>

\* step: catch block, and the finally
StepCatch ==
  /\ error' = Err("Failed to step simulation")
  /\ connectionStatus' = "disconnected"
  /\ stepping' = FALSE
  /\ UNCHANGED <<basicVars, enhancedVars, loading, lastUpdated>>

\* reset: try { setLoading(true); setError(null)
ResetStart ==
  /\ loading' = TRUE
  /\ error' = Null
  /\ UNCHANGED <<basicVars, enhancedVars, stepping, connectionStatus, lastUpdated>>

\* reset: catch block; the function has no finally
ResetCatch ==
  /\ error' = Err("Failed to reset simulation")
  /\ UNCHANGED <<basicVars, enhancedVars, loading, stepping, connectionStatus, lastUpdated>>

\* triggerEmergencyMode / forceCoordinationMode: catch block
FlowTestCatch(kind) ==
  /\ error' = IF kind = "emergency" THEN Err("Failed to trigger emergency")
                                    ELSE Err("Failed to force coordination")
  /\ UNCHANGED <<basicVars, enhancedVars, loading, stepping, connectionStatus, lastUpdated>>

\* variant: a flow test that ends by writing the fallback snapshot
EnhancedOnlyDoneWithFallback ==
  /\ grid' = Null
  /\ logs' = <<FallbackLog>>
  /\ agents' = {}
  /\ UNCHANGED flagVars

\* triggerEmergencyMode / forceCoordinationMode / the timer's refresh branch:
\* nothing but a console.log follows await loadEnhancedData()
EnhancedOnlyDone == UNCHANGED <<basicVars, flagVars>>

\* variant: callers that treat a null metrics result as a failed connection
AfterEnhancedReportingFailure(kind) ==
  IF conditionalMetrics' = Null
    THEN /\ error' = Err("Failed to load enhanced data")
         /\ connectionStatus' = "disconnected"
         /\ loading' = FALSE
         /\ stepping' = FALSE
         /\ UNCHANGED <<basicVars, lastUpdated>>
    ELSE CASE kind \in {"load", "reset", "probe"} -> LoadAllDataSuccess
           [] kind = "step" -> StepSuccess
           [] OTHER -> EnhancedOnlyDone

\* what the caller of loadEnhancedData() does once it has returned
AfterEnhanced(kind) ==
  CASE kind \in {"load", "reset", "probe"} -> LoadAllDataSuccess
    [] kind = "step" -> StepSuccess
    [] OTHER -> EnhancedOnlyDone

\* ------------------------------------------------------ the page's controls
StepEnabled == ~(loading \/ stepping \/ connectionStatus # "connected")
RefreshEnabled == ~(loading \/ stepping)
ResetEnabled == ~(loading \/ stepping \/ connectionStatus # "connected")
FlowTestEnabled == ~(loading \/ stepping \/ connectionStatus # "connected")
\* the status banner with its Retry button
BannerShown == connectionStatus # "connected" \/ error # Null
BannerRetryEnabled == BannerShown /\ ~loading
\* "Retry Connection" of the empty agent panel: rendered without a disabled prop
RetryConnectionEnabled == agents = {} /\ connectionStatus = "disconnected"

\* ---------------------------------------------------------------- actions
Launch(op) == ops' = ops (+) SetToBag({op})
Finish(op) == ops' = ops (-) SetToBag({op})
Continue(op, next) == ops' = (ops (-) SetToBag({op})) (+) SetToBag({next})

\* refresh(): await loadAllData()
StartLoad ==
  /\ HasFree
  /\ LoadAllDataStart
  /\ Launch(NewOp("load", "basic"))
  /\ ev' = NoEvent
  /\ UNCHANGED <<closureStatus, bstep, healthCheckInterval, componentVars, slots>>

\* the provider's mount effect: loadAllData(), then setInterval(callback, 30000);
\* the callback keeps the connectionStatus of the render that created it
Mount ==
  /\ ~mounted /\ healthCheckInterval = "unset"
  /\ mounted' = TRUE
  /\ closureStatus' = connectionStatus
  /\ healthCheckInterval' = "set"
  /\ HasFree
  /\ LoadAllDataStart
  /\ Launch(NewOp("load", "basic"))
  /\ ev' = NoEvent
  /\ UNCHANGED <<bstep, componentVars, slots>>

ClickRefresh == mounted /\ RefreshEnabled /\ StartLoad /\ UNCHANGED mounted

ClickBannerRetry == mounted /\ BannerRetryEnabled /\ StartLoad /\ UNCHANGED mounted

ClickRetryConnection == mounted /\ RetryConnectionEnabled /\ StartLoad /\ UNCHANGED mounted

\* variant: a step that posts its request twice
ClickStepSendingTwice ==
  /\ mounted /\ StepEnabled /\ HasFree
  /\ StepStart
  /\ ops' = ops (+) SetToBag({NewOp("step", "post")}) (+) SetToBag({NewOp("step", "post")})
  /\ ev' = NoEvent
  /\ UNCHANGED <<mounted, closureStatus, bstep, healthCheckInterval, componentVars, slots>>

ClickStep ==
  /\ mounted /\ StepEnabled /\ HasFree
  /\ StepStart
  /\ Launch(NewOp("step", "post"))
  /\ ev' = NoEvent
  /\ UNCHANGED <<mounted, closureStatus, bstep, healthCheckInterval, componentVars, slots>>

\* variant: a reset that starts its load without awaiting the reset request
ClickResetLoadingAtOnce ==
  /\ mounted /\ ResetEnabled /\ HasFree
  /\ LoadAllDataStart
  /\ Launch(NewOp("reset", "basic"))
  /\ ev' = NoEvent
  /\ UNCHANGED <<mounted, closureStatus, bstep, healthCheckInterval, componentVars, slots>>

ClickReset ==
  /\ mounted /\ ResetEnabled /\ HasFree
  /\ ResetStart
  /\ Launch(NewOp("reset", "post"))
  /\ ev' = NoEvent
  /\ UNCHANGED <<mounted, closureStatus, bstep, healthCheckInterval, componentVars, slots>>

\* Trigger Emergency / Force Coordination: both functions start with their await
ClickFlowTest ==
  /\ mounted /\ FlowTestEnabled /\ HasFree
  /\ \E kind \in {"emergency", "coordination"} : Launch(NewOp(kind, "post"))
  /\ ev' = NoEvent
  /\ UNCHANGED <<storeVars, mounted, closureStatus, bstep, healthCheckInterval,
               componentVars, slots>>

\* the setInterval callback: if (connectionStatus === 'disconnected') { reconnect }
\* else if (connectionStatus === 'connected') { await loadEnhancedData() }
TimerCallback ==
  /\ IF closureStatus = "disconnected" /\ HasFree
       THEN Launch(NewOp("probe", "post"))
       ELSE IF closureStatus = "connected" /\ HasFree
              THEN Launch(NewOp("autorefresh", "enhanced"))
              ELSE UNCHANGED ops
  /\ UNCHANGED <<storeVars, mounted, closureStatus, bstep, healthCheckInterval,
               componentVars, slots>>

\* the interval elapses and the callback runs
TimerTick ==
  /\ healthCheckInterval = "set"
  /\ TimerCallback
  /\ ev' = NoEvent

\* the same, with the firing left visible in ev
TimerTickSeen ==
  /\ healthCheckInterval = "set"
  /\ TimerCallback
  /\ ev' = TickEvent

\* one of fetchGrid / fetchLogs / fetchAgents of a loadBasicData settles
BasicFetchResolves ==
  \E s \in InFlight, f \in {"g", "l", "a"}, thrown \in {ApiCallThrows(o) : o \in Outcomes} :
    /\ s.pc = "basic"
    /\ s[f] = Pending
    /\ IF thrown
         THEN \* Promise.all rejects with the first failure
              /\ LoadAllDataCatch
              /\ Finish(s)
         ELSE LET body == CASE f = "g" -> GridAt(bstep)
                            [] f = "l" -> LogsAt(bstep)
                            [] f = "a" -> AgentsAt(bstep)
                  got == [s EXCEPT ![f] = Resp(body)]
              IN IF got.g # Pending /\ got.l # Pending /\ got.a # Pending
                   THEN /\ LoadBasicDataApply(got.g.body, got.l.body, got.a.body)
                        /\ Continue(s, NewOp(s.kind, "enhanced"))
                   ELSE /\ Continue(s, got)
                        /\ UNCHANGED storeVars
    /\ ev' = NoEvent
    /\ UNCHANGED <<mounted, closureStatus, bstep, healthCheckInterval, componentVars, slots>>

\* .catch(e => null) around each of the three enhanced fetches
MetricsOrNull(o) == IF ApiCallThrows(o) THEN Null ELSE MetricsBody
PhaseOrNull(o) == IF ApiCallThrows(o) THEN Null ELSE PhaseBody
HealthOrNull(o) == IF HealthCheckThrows(o) THEN Null ELSE HealthCheckValue(o)

\* an answer as the store's caller sees it: was the request answered with a
\* 2xx, and what the wrapped fetch resolved with
MetricsAnswers == {[ok |-> o = "ok", value |-> MetricsOrNull(o)] : o \in Outcomes}
PhaseAnswers == {[ok |-> o = "ok", value |-> PhaseOrNull(o)] : o \in Outcomes}
HealthAnswers == {[ok |-> o = "ok", value |-> HealthOrNull(o)] : o \in Outcomes}

\* the Promise.all of loadEnhancedData settles: the last of fetchConditionalMetrics,
\* fetchPhaseInfo and healthCheck has answered.  The three bodies do not depend on
\* when they were produced and nothing reads a partial result, so the three
\* answers are drawn together.
EnhancedFetchResolves ==
  \E s \in InFlight, m \in MetricsAnswers, p \in PhaseAnswers, h \in HealthAnswers :
    /\ s.pc = "enhanced"
    /\ LoadEnhancedDataApply(m.value, p.value, h.value)
    /\ AfterEnhanced(s.kind)
    /\ Finish(s)
    /\ ev' = EnhancedEvent(s.kind, {f \in {"m", "p", "h"} :
                                      \/ f = "m" /\ ~m.ok
                                      \/ f = "p" /\ ~p.ok
                                      \/ f = "h" /\ ~h.ok})
    /\ UNCHANGED <<mounted, closureStatus, bstep, healthCheckInterval, componentVars, slots>>

\* the request a step / reset / flow-test / probe call awaits first settles.
\* `reached` says whether the backend handled the request; a request answered
\* with a status was handled, one lost on the network may or may not have been.
AwaitedRequestResolves ==
  \E s \in InFlight, o \in Outcomes, reached \in BOOLEAN :
    /\ s.pc = "post"
    /\ o = "ok" => reached
    /\ o = "http_error" => ~reached
    /\ CASE s.kind = "step" ->
              IF ApiCallThrows(o)
                THEN /\ StepCatch
                     /\ Finish(s)
                     /\ bstep' = IF reached /\ bstep < MaxSteps THEN bstep + 1 ELSE bstep
                ELSE /\ bstep < MaxSteps
                     /\ bstep' = bstep + 1
                     /\ StepApply(StepResultAt(bstep'))
                     /\ Continue(s, NewOp("step", "enhanced"))
         [] s.kind = "reset" ->
              IF ApiCallThrows(o)
                THEN /\ ResetCatch
                     /\ Finish(s)
                     /\ bstep' = IF reached THEN 0 ELSE bstep
                ELSE \* await loadAllData()
                     /\ bstep' = 0
                     /\ LoadAllDataStart
                     /\ Continue(s, NewOp("reset", "basic"))
         [] s.kind \in {"emergency", "coordination"} ->
              IF ApiCallThrows(o)
                THEN /\ FlowTestCatch(s.kind)
                     /\ Finish(s)
                     /\ UNCHANGED bstep
                ELSE /\ UNCHANGED storeVars
                     /\ Continue(s, NewOp(s.kind, "enhanced"))
                     /\ UNCHANGED bstep
         [] s.kind = "probe" ->
              \* reconnect branch of the timer: health = await healthCheck();
              \* if (health) { setConnectionStatus('connected'); setError(null);
              \* await loadAllData() }; its catch only logs
              IF HealthCheckThrows(o)
                THEN /\ UNCHANGED storeVars
                     /\ Finish(s)
                     /\ UNCHANGED bstep
                ELSE /\ LoadAllDataStart
                     /\ Continue(s, NewOp("probe", "basic"))
                     /\ UNCHANGED bstep
    /\ ev' = NoEvent
    /\ UNCHANGED <<mounted, closureStatus, healthCheckInterval, componentVars, slots>>

Next ==
  \/ Mount
  \/ ClickRefresh
  \/ ClickBannerRetry
  \/ ClickRetryConnection
  \/ ClickStep
  \/ ClickReset
  \/ ClickFlowTest
  \/ TimerTick
  \/ BasicFetchResolves
  \/ EnhancedFetchResolves
  \/ AwaitedRequestResolves

Spec == Init /\ [][Next]_vars

\* the same program, observed with the timer's firings marked
NextTimer ==
  \/ Mount
  \/ ClickRefresh
  \/ ClickBannerRetry
  \/ ClickRetryConnection
  \/ ClickStep
  \/ ClickReset
  \/ ClickFlowTest
  \/ TimerTickSeen
  \/ BasicFetchResolves
  \/ EnhancedFetchResolves
  \/ AwaitedRequestResolves

SpecTimer == Init /\ [][NextTimer]_vars

\* ------------------------------------------------------------ properties
\* steps of the store, recognised from the calls in flight before and after
Gone(s) == ops' = ops (-) SetToBag({s})
Moved(s, pc) == ops' = (ops (-) SetToBag({s})) (+) SetToBag({NewOp(s.kind, pc)})

\* a loadAllData leaves its basic batch without entering the enhanced one:
\* one of its three fetches failed
LoadFailed(s) == s \in InFlight /\ s.pc = "basic" /\ Gone(s)
\* a step / a reset / a flow test ends at the request it awaited first
StepFailed(s) == s \in InFlight /\ s.kind = "step" /\ s.pc = "post" /\ Gone(s)
ActionFailed(s) ==
  /\ s \in InFlight
  /\ s.kind \in {"reset", "emergency", "coordination"}
  /\ s.pc = "post"
  /\ Gone(s)
\* stepSimulation() resolved
StepResponded(s) == s \in InFlight /\ s.kind = "step" /\ s.pc = "post" /\ Moved(s, "enhanced")
\* a call returns from its enhanced batch
Completed(s) == s \in InFlight /\ s.pc = "enhanced" /\ Gone(s)

\* C1: a load of which a basic fetch fails ends disconnected, with grid null,
\* agents empty and logs the single fallback line, whatever the other fetches
\* of the batch had returned and whatever the snapshot was before
C1_LoadFailureFallback ==
  [][\A s \in InFlight :
       LoadFailed(s) =>
         /\ connectionStatus' = "disconnected"
         /\ grid' = Null
         /\ agents' = {}
         /\ logs' = <<FallbackLog>>]_vars

\* C1 witness: a load has failed after an earlier load had filled the snapshot
C1_Witness ==
  /\ NoneInFlight
  /\ lastUpdated # Null
  /\ connectionStatus = "disconnected"
  /\ grid = Null /\ agents = {} /\ logs = <<FallbackLog>>

\* C2: a step whose request fails leaves grid, agents and logs as they were,
\* sets the status to disconnected and sets an error message
C2_StepFailureKeepsSnapshot ==
  [][\A s \in InFlight :
       StepFailed(s) =>
         /\ UNCHANGED <<grid, logs, agents>>
         /\ connectionStatus' = "disconnected"
         /\ error' # Null]_vars

\* C2 witness: a step has failed on a loaded snapshot, which is still there
C2_Witness ==
  /\ NoneInFlight
  /\ error = Err("Failed to step simulation")
  /\ connectionStatus = "disconnected"
  /\ grid # Null /\ agents # {} /\ logs # <<FallbackLog>>
  /\ ~stepping

\* C3: when the enhanced batch of a load settles, the load ends connected with
\* no error and a loaded basic snapshot, every enhanced field whose fetch the
\* backend failed is null, and every other one holds its response
C3_EnhancedFailuresIsolated ==
  (ev.type = "enhanced" /\ ev.kind \in {"load", "reset"}) =>
    /\ connectionStatus = "connected"
    /\ error = Null
    /\ grid # Null /\ agents # {}
    /\ conditionalMetrics = IF "m" \in ev.failed THEN Null ELSE MetricsBody
    /\ phaseInfo = IF "p" \in ev.failed THEN Null ELSE PhaseBody
    /\ healthStatus = IF "h" \in ev.failed THEN Null ELSE HealthBody

\* C4: a firing of the timer while the status is disconnected starts a
\* reconnect attempt (unless no further call can be started)
C4_TickReconnects ==
  (ev.type = "tick" /\ connectionStatus = "disconnected") =>
    \/ \E s \in InFlight : s.kind = "probe"
    \/ ~HasFree

\* C5: a firing of the timer while the status is connected re-runs the
\* enhanced fetch (unless no further call can be started)
C5_TickRefreshes ==
  (ev.type = "tick" /\ connectionStatus = "connected") =>
    \/ \E s \in InFlight : s.kind = "autorefresh" /\ s.pc = "enhanced"
    \/ ~HasFree

\* C6: when the request of reset, triggerEmergencyMode or forceCoordinationMode
\* fails on a connected store with a loaded snapshot, the status becomes
\* disconnected and grid, logs and agents keep their values
C6_ActionFailureDisconnects ==
  [][\A s \in InFlight :
       (ActionFailed(s) /\ connectionStatus = "connected" /\ grid # Null) =>
         /\ connectionStatus' = "disconnected"
         /\ UNCHANGED <<grid, logs, agents>>]_vars

\* C7: whenever no request is in flight and the page shows an error or a status
\* other than connected, loading is false and a retry control is enabled
C7_RetryAlwaysAvailable ==
  (mounted /\ NoneInFlight /\ BannerShown) =>
    /\ ~loading
    /\ BannerRetryEnabled \/ RefreshEnabled \/ RetryConnectionEnabled

\* C8 as stated: a failing load leaves conditionalMetrics, phaseInfo and
\* healthStatus at their last values
C8_LoadFailureKeepsEnhanced ==
  [][\A s \in InFlight :
       LoadFailed(s) => UNCHANGED <<conditionalMetrics, phaseInfo, healthStatus>>]_vars

\* C8 amended: a failing load resets conditionalMetrics, phaseInfo and
\* healthStatus to null, along with the fallback values of grid, logs and agents
C8_LoadFailureResetsEnhanced ==
  [][\A s \in InFlight :
       LoadFailed(s) =>
         /\ conditionalMetrics' = Null /\ phaseInfo' = Null /\ healthStatus' = Null
         /\ grid' = Null /\ logs' = <<FallbackLog>> /\ agents' = {}]_vars

\* C8 witness: a load has failed on a store that had been loaded before, and
\* the enhanced fields are null
C8_Witness ==
  /\ NoneInFlight
  /\ lastUpdated # Null
  /\ logs = <<FallbackLog>>
  /\ conditionalMetrics = Null /\ phaseInfo = Null /\ healthStatus = Null
  /\ ~loading

\* C9: when stepSimulation() resolves, grid, logs and agents become the values
\* of the response, whatever they were; when the step returns, the status is
\* connected
C9_StepReplacesSnapshot ==
  [][\A s \in InFlight :
       /\ StepResponded(s) =>
            /\ grid' = StepResultAt(bstep').grid
            /\ logs' = StepResultAt(bstep').logs
            /\ agents' = StepResultAt(bstep').agents
       /\ (Completed(s) /\ s.kind = "step") => connectionStatus' = "connected"]_vars

\* C9 witness: a step has just returned and the store holds its response
C9_Witness ==
  /\ ev.type = "enhanced" /\ ev.kind = "step"
  /\ bstep > 0
  /\ grid = StepResultAt(bstep).grid
  /\ logs = StepResultAt(bstep).logs
  /\ Len(logs) > 1
  /\ connectionStatus = "connected"

\* C10: before the mount effect has run the status is connecting, and a load
\* whose three basic fetches succeeded ends with the status connected, whatever
\* its enhanced fetches did
C10_ConnectingThenConnected ==
  /\ [](~mounted => connectionStatus = "connecting")
  /\ [][\A s \in InFlight :
          (Completed(s) /\ s.kind \in {"load", "reset", "probe"}) =>
            connectionStatus' = "connected"]_vars

\* C10 witness: a load has just returned connected with all three enhanced
\* fetches failed
C10_Witness ==
  /\ ev.type = "enhanced" /\ ev.kind = "load"
  /\ ev.failed = {"m", "p", "h"}
  /\ connectionStatus = "connected"

\* a load's basic batch moves on with one more fetch answered and at least one
\* still outstanding
BasicFetchPartly(s) ==
  /\ s \in InFlight /\ s.pc = "basic"
  /\ \E t \in BagToSet(ops') :
       /\ t.pc = "basic" /\ t.kind = s.kind /\ t # s
       /\ ops' = (ops (-) SetToBag({s})) (+) SetToBag({t})
\* a load's basic batch completes: the last of its three fetches answered
BasicBatchDone(s) == s \in InFlight /\ s.pc = "basic" /\ Moved(s, "enhanced")
\* the value the batch of s holds for fetch f once the batch is complete: the
\* answer recorded earlier, or the one that has just arrived
BatchValue(s, f, arriving) == IF s[f] = Pending THEN arriving ELSE s[f].body

\* C11: grid, logs and agents are only ever written together: a step that
\* changes one of them writes the three values of one completed load batch, the
\* three values of one step response, or the three fallback values; while a
\* load's basic batch is still incomplete none of the three changes
C11_BasicFieldsWrittenTogether ==
  [][/\ \A s \in InFlight : BasicFetchPartly(s) => UNCHANGED <<grid, logs, agents>>
     /\ \/ UNCHANGED <<grid, logs, agents>>
        \/ grid' = Null /\ logs' = <<FallbackLog>> /\ agents' = {}
        \/ \E s \in InFlight :
             /\ StepResponded(s)
             /\ grid' = StepResultAt(bstep').grid
             /\ logs' = StepResultAt(bstep').logs
             /\ agents' = StepResultAt(bstep').agents
        \/ \E s \in InFlight :
             /\ BasicBatchDone(s)
             /\ grid' = BatchValue(s, "g", GridAt(bstep))
             /\ logs' = BatchValue(s, "l", LogsAt(bstep)).logs
             /\ agents' = BatchValue(s, "a", AgentsAt(bstep))]_vars

\* C11 witness: two of a load's three basic fetches have answered with values
\* that differ from the snapshot the store still holds
C11_Witness ==
  \E s \in InFlight :
    /\ s.pc = "basic"
    /\ s.g # Pending /\ s.l # Pending /\ s.a = Pending
    /\ grid # Null /\ s.g.body # grid
    /\ s.l.body.logs # logs

\* the callers of loadEnhancedData that go on to set the status
SetsConnected == {"load", "reset", "probe", "step"}
\* the callers that are a loadAllData
LoadKinds == {"load", "reset", "probe"}

\* C12: when an enhanced batch in which some fetch failed settles, grid, logs
\* and agents are unchanged and error and connectionStatus get exactly the
\* values the caller gives them when nothing failed: no error message is set
\* and the status is not lowered, in every operation that runs the batch
C12_EnhancedFailureSwallowed ==
  [][\A s \in InFlight :
       (Completed(s) /\ ev'.type = "enhanced" /\ ev'.failed # {}) =>
         /\ UNCHANGED <<grid, logs, agents>>
         /\ error' = (IF s.kind \in LoadKinds THEN Null ELSE error)
         /\ connectionStatus' = (IF s.kind \in SetsConnected THEN "connected"
                                                              ELSE connectionStatus)]_vars

\* C12 witness: a flow test's enhanced batch has just settled with all three
\* fetches failed, on a store that is connected, without error, with a snapshot
C12_Witness ==
  /\ ev.type = "enhanced" /\ ev.kind \in {"emergency", "coordination"}
  /\ ev.failed = {"m", "p", "h"}
  /\ error = Null
  /\ connectionStatus = "connected"
  /\ grid # Null

\* reset: resetSimulation() resolved, and the function goes on to loadAllData()
ResetAcknowledged(s) ==
  s \in InFlight /\ s.kind = "reset" /\ s.pc = "post" /\ Moved(s, "basic")

\* C13: a reset's basic fetches are outstanding only after its reset request
\* was answered successfully (the backend has reset by then); when its basic
\* batch completes the store holds that batch's values, and when the reset
\* returns the status is connected
C13_ResetThenLoad ==
  [][/\ \A t \in BagToSet(ops') :
          (t.kind = "reset" /\ t.pc = "basic" /\ CopiesIn(t, ops') > CopiesIn(t, ops)) =>
            \E s \in InFlight :
              \/ ResetAcknowledged(s) /\ bstep' = 0
              \/ s.kind = "reset" /\ BasicFetchPartly(s)
     /\ \A s \in InFlight :
          (BasicBatchDone(s) /\ s.kind = "reset") =>
            /\ grid' = BatchValue(s, "g", GridAt(bstep))
            /\ logs' = BatchValue(s, "l", LogsAt(bstep)).logs
            /\ agents' = BatchValue(s, "a", AgentsAt(bstep))
     /\ \A s \in InFlight :
          (Completed(s) /\ s.kind = "reset") => connectionStatus' = "connected"]_vars

\* C13 witness: a reset has just returned; the store holds the snapshot of the
\* reset backend and is connected
C13_Witness ==
  /\ ev.type = "enhanced" /\ ev.kind = "reset"
  /\ bstep = 0
  /\ grid = GridAt(0) /\ logs = LogsAt(0).logs /\ agents = AgentsAt(0)
  /\ connectionStatus = "connected"
  /\ ~loading

FlowTests == {"emergency", "coordination"}
\* triggerEmergency() / forceCoordination() resolved
FlowTestAcknowledged(s) ==
  s \in InFlight /\ s.kind \in FlowTests /\ s.pc = "post" /\ Moved(s, "enhanced")

\* C14: a flow test is only ever waiting for its own request or for the
\* enhanced batch, never for a grid, logs or agents fetch; being invoked, having
\* its request answered and returning from the enhanced batch each leave grid,
\* logs, agents, connectionStatus, loading and stepping as they were, and none
\* of them advances the backend's step counter
C14_FlowTestsRefreshOnly ==
  /\ [](\A s \in InFlight : s.kind \in FlowTests => s.pc \in {"post", "enhanced"})
  /\ [][\A k \in FlowTests :
          ops' = ops (+) SetToBag({NewOp(k, "post")}) =>
            UNCHANGED <<grid, logs, agents, connectionStatus, loading, stepping, bstep>>]_vars
  /\ [][\A s \in InFlight :
          (FlowTestAcknowledged(s) \/ (Completed(s) /\ s.kind \in FlowTests)) =>
            UNCHANGED <<grid, logs, agents, connectionStatus, loading, stepping, bstep>>]_vars

\* C14 witness: a flow test has just returned with its enhanced batch answered,
\* and the store is connected with its snapshot and neither loading nor stepping
C14_Witness ==
  /\ ev.type = "enhanced" /\ ev.kind \in FlowTests
  /\ ev.failed = {}
  /\ conditionalMetrics = MetricsBody
  /\ grid # Null /\ agents # {}
  /\ connectionStatus = "connected"
  /\ ~loading /\ ~stepping

\* ------------------------------------------------- the API client on its own
\* the exported functions of lib/api.ts: the endpoint and method each passes on
ClientFunctions ==
  {[fn |-> "fetchGrid", endpoint |-> "/grid", method |-> "GET"],
   [fn |-> "fetchLogs", endpoint |-> "/logs", method |-> "GET"],
   [fn |-> "fetchAgents", endpoint |-> "/agents", method |-> "GET"],
   [fn |-> "stepSimulation", endpoint |-> "/step", method |-> "POST"],
   [fn |-> "fetchConditionalMetrics", endpoint |-> "/conditional-metrics", method |-> "GET"],
   [fn |-> "fetchPhaseInfo", endpoint |-> "/phase-info", method |-> "GET"],
   [fn |-> "triggerEmergency", endpoint |-> "/trigger-emergency", method |-> "POST"],
   [fn |-> "forceCoordination", endpoint |-> "/force-coordination", method |-> "POST"],
   [fn |-> "fetchDebugInfo", endpoint |-> "/debug", method |-> "GET"],
   [fn |-> "fetchGridRaw", endpoint |-> "/grid-raw", method |-> "GET"],
   [fn |-> "resetSimulation", endpoint |-> "/reset", method |-> "POST"],
   [fn |-> "healthCheck", endpoint |-> "/health", method |-> "GET"],
   [fn |-> "fetchServerStatus", endpoint |-> "/", method |-> "GET"]}

\* the two functions that call fetch themselves instead of going through apiCall
RawFetchFunctions == {"healthCheck", "fetchServerStatus"}

\* what the transport can answer: a response with a status and a body that is
\* JSON or not, or no response at all (fetch rejects)
Statuses == {200, 404, 500, 503}
TransportAnswers ==
  {[kind |-> "response", status |-> st, json |-> j] : st \in Statuses, j \in BOOLEAN}
    \cup {[kind |-> "network_error"]}

\* response.ok
ResponseOk(answer) == answer.status \in 200..299
\* response.statusText
StatusText(st) ==
  CASE st = 200 -> "OK"
    [] st = 404 -> "Not Found"
    [] st = 500 -> "Internal Server Error"
    [] st = 503 -> "Service Unavailable"

\* the outcome class of an answer, as the store's model draws it
OutcomeOf(answer) ==
  IF answer.kind = "network_error" THEN "network_error"
  ELSE IF ResponseOk(answer) THEN "ok" ELSE "http_error"

\* the exceptions of the transport: fetch rejects with a TypeError,
\* response.json() with a SyntaxError
FetchTypeError == [type |-> "TypeError", message |-> "Failed to fetch"]
JsonSyntaxError == [type |-> "SyntaxError", message |-> "Unexpected token"]
\* the one error apiCall constructs itself
ApiCallError(answer) ==
  [type |-> "Error",
   message |-> "API call failed: " \o ToString(answer.status) \o " " \o StatusText(answer.status)]

Resolved(v) == [kind |-> "resolved", value |-> v]
Rejected(e) == [kind |-> "rejected", value |-> e]

\* the parsed body of a response
ParsedBody(answer) == IF ResponseOk(answer) THEN [tag |-> "data"] ELSE ErrorBody

\* apiCall: throws its own Error on !response.ok; its catch block rethrows
\* whatever was thrown inside the try
apiCall(answer) ==
  IF answer.kind = "network_error" THEN Rejected(FetchTypeError)
  ELSE IF ~ResponseOk(answer) THEN Rejected(ApiCallError(answer))
  ELSE IF answer.json THEN Resolved(ParsedBody(answer))
  ELSE Rejected(JsonSyntaxError)

\* healthCheck / fetchServerStatus: fetch, then response.json(), no response.ok
\* test; the catch block rethrows
healthCheck(answer) ==
  IF answer.kind = "network_error" THEN Rejected(FetchTypeError)
  ELSE IF answer.json THEN Resolved(ParsedBody(answer))
  ELSE Rejected(JsonSyntaxError)

\* a client function is called
ApiRequest ==
  /\ call = NoCall \/ callResult # Pending
  /\ \E f \in ClientFunctions : call' = [fn |-> f.fn, endpoint |-> f.endpoint,
                                          method |-> f.method, answer |-> Pending]
  /\ callResult' = Pending
  /\ UNCHANGED <<storeVars, mounted, closureStatus, ops, bstep, ev, healthCheckInterval,
                 rendered, pageVars, slots>>

\* the transport answers and the function returns or throws
ApiSettles ==
  /\ call # NoCall /\ callResult = Pending
  /\ \E answer \in TransportAnswers :
       /\ call' = [call EXCEPT !.answer = answer]
       /\ callResult' = IF call.fn \in RawFetchFunctions THEN healthCheck(answer)
                                                         ELSE apiCall(answer)
  /\ UNCHANGED <<storeVars, mounted, closureStatus, ops, bstep, ev, healthCheckInterval,
                 rendered, pageVars, slots>>

NextApi ==
  \/ ApiRequest
  \/ ApiSettles

SpecApi == Init /\ [][NextApi]_vars

Settled == call # NoCall /\ callResult # Pending

\* C15: every failure a client function reports is the one error the client
\* constructs itself, carrying a message; the transport's own exception value
\* never reaches the caller
C15_SingleNormalizedError ==
  (Settled /\ callResult.kind = "rejected") =>
    /\ callResult.value.type = "Error"
    /\ callResult.value \notin {FetchTypeError, JsonSyntaxError}

\* C16: healthCheck() fails exactly when fetchGrid() fails on the same answer of
\* the transport: on a non-2xx response as well as on a network failure
C16_HealthCheckFailsLikeFetchGrid ==
  (Settled /\ call.fn = "healthCheck") =>
    callResult.kind = apiCall(call.answer).kind

\* --------------------------------------------------------------- teardown
\* variant: a cleanup that leaves the interval running
UnmountWithoutClearing ==
  /\ mounted
  /\ mounted' = FALSE
  /\ ev' = NoEvent
  /\ UNCHANGED <<storeVars, closureStatus, ops, bstep, healthCheckInterval, componentVars, slots>>

\* the provider is unmounted and the mount effect's cleanup runs:
\* clearInterval(healthCheckInterval).  Calls still in flight run on.
Unmount ==
  /\ mounted
  /\ mounted' = FALSE
  /\ healthCheckInterval' = "cleared"
  /\ ev' = NoEvent
  /\ UNCHANGED <<storeVars, closureStatus, ops, bstep, componentVars, slots>>

\* the program with its teardown
NextTeardown ==
  \/ Mount
  \/ Unmount
  \/ ClickRefresh
  \/ ClickBannerRetry
  \/ ClickRetryConnection
  \/ ClickStep
  \/ ClickReset
  \/ ClickFlowTest
  \/ TimerTick
  \/ BasicFetchResolves
  \/ EnhancedFetchResolves
  \/ AwaitedRequestResolves

SpecTeardown == Init /\ [][NextTeardown]_vars

\* the provider was mounted and has been unmounted
TornDown == ~mounted /\ healthCheckInterval # "unset"

\* C17: once the provider has been unmounted the interval is no longer set and
\* the timer cannot fire, so the callback that issues the periodic reconnect
\* and refresh requests does not run again
C17_NoTickAfterTeardown ==
  TornDown =>
    /\ healthCheckInterval = "cleared"
    /\ ~ENABLED TimerTick

\* C17 witness: the provider has been unmounted after a load had completed, the
\* interval is cleared and nothing is in flight
C17_Witness ==
  /\ TornDown
  /\ healthCheckInterval = "cleared"
  /\ lastUpdated # Null
  /\ NoneInFlight

\* ------------------------------------------------- the grid view on its own
\* a field of a cell that is absent or null
NoValue == "none"
\* grid.cells[cellKey] of a coordinate that has no entry
Undefined == [tag |-> "undefined"]

Occupants == {NoValue, "scout", "builder", "strategist", "drone"}
Structures == {NoValue, "building", "road"}
Cells == [occupied_by : Occupants, structure : Structures]

\* `${x},${y}`
CellKey(x, y) == ToString(x) \o "," \o ToString(y)

\* the grids handed to the view: every size up to the bounds, with no entry in
\* cells or with one entry at a coordinate of the grid
GridProps ==
  {[tag |-> "grid", width |-> w, height |-> h, cells |-> << >>] :
     w \in 1..MaxWidth, h \in 1..MaxHeight}
  \cup
  UNION {{[tag |-> "grid", width |-> w, height |-> h,
           cells |-> [k \in {CellKey(x, y)} |-> c]] :
            x \in 0..(w - 1), y \in 0..(h - 1), c \in Cells} :
         w \in 1..MaxWidth, h \in 1..MaxHeight}

\* cell?.occupied_by / cell?.structure
OccupiedBy(cell) == IF cell = Undefined THEN NoValue ELSE cell.occupied_by
StructureOf(cell) == IF cell = Undefined THEN NoValue ELSE cell.structure

EmptyIcon == "white_square"
BuildingIcon == "house"
OccupantIcon(agent) ==
  CASE agent = "builder" -> "hammer"
    [] agent = "scout" -> "eyes"
    [] agent = "strategist" -> "brain"
    [] OTHER -> "robot"

renderCell(cell) ==
  IF OccupiedBy(cell) # NoValue THEN OccupantIcon(OccupiedBy(cell))
  ELSE IF StructureOf(cell) = "building" THEN BuildingIcon
  ELSE EmptyIcon

renderCellDescription(cell) ==
  IF OccupiedBy(cell) # NoValue /\ StructureOf(cell) # NoValue
    THEN OccupiedBy(cell) \o " + " \o StructureOf(cell)
  ELSE IF OccupiedBy(cell) # NoValue THEN OccupiedBy(cell)
  ELSE IF StructureOf(cell) # NoValue THEN StructureOf(cell)
  ELSE "empty"

\* x = i % grid.width
CellX(i, width) == i % width
\* variant: the row taken by rounding up
CellYRoundingUp(i, width) == (i + width - 1) \div width
\* y = Math.floor(i / grid.width)
CellY(i, width) == i \div width

\* grid.cells[cellKey]
CellAt(g, key) == IF key \in DOMAIN g.cells THEN g.cells[key] ELSE Undefined

\* GridMap: "Loading..." without a grid, else Array.from({length: width * height})
GridMapRender(g) ==
  IF g = Null
    THEN [tag |-> "loading"]
    ELSE [tag |-> "cells",
          cells |-> [i \in 0..(g.width * g.height - 1) |->
                       LET x == CellX(i, g.width)
                           y == CellY(i, g.width)
                           cellKey == CellKey(x, y)
                           cell == CellAt(g, cellKey)
                       IN [key |-> cellKey, content |-> renderCell(cell),
                           title |-> renderCellDescription(cell)]]]

InitGrid ==
  /\ grid \in GridProps \cup {Null}
  /\ logs = <<>>
  /\ agents = {}
  /\ conditionalMetrics = Null
  /\ phaseInfo = Null
  /\ healthStatus = Null
  /\ loading = TRUE
  /\ stepping = FALSE
  /\ error = Null
  /\ connectionStatus = "connecting"
  /\ lastUpdated = Null
  /\ mounted = FALSE
  /\ closureStatus = "connecting"
  /\ ops = EmptyBag
  /\ bstep = 0
  /\ ev = NoEvent
  /\ healthCheckInterval = "unset"
  /\ call = NoCall
  /\ callResult = Pending
  /\ rendered = NotRendered
  /\ slots = MaxOps
  /\ showDebug = FALSE
  /\ debugData = Null
  /\ debugHandler = HandlerIdle
  /\ showRawGrid = FALSE
  /\ rawGridData = Null
  /\ logPanel = NotRendered

\* the view renders the grid it is given
Render ==
  /\ rendered = NotRendered
  /\ rendered' = GridMapRender(grid)
  /\ UNCHANGED <<storeVars, mounted, closureStatus, ops, bstep, ev, healthCheckInterval,
                 call, callResult, pageVars, slots>>

NextGrid ==
  \/ Render

SpecGrid == InitGrid /\ [][NextGrid]_vars

\* C18: a rendered grid has width*height cells, every key is the key of a
\* coordinate of the grid, and every coordinate of the grid is the key of
\* exactly one cell
C18_CellsKeyedOneToOne ==
  (rendered # NotRendered /\ grid # Null) =>
    LET cs == rendered.cells
        coords == (0..(grid.width - 1)) \X (0..(grid.height - 1))
    IN /\ Cardinality(DOMAIN cs) = grid.width * grid.height
       /\ \A i \in DOMAIN cs : \E c \in coords : cs[i].key = CellKey(c[1], c[2])
       /\ \A c \in coords :
            Cardinality({i \in DOMAIN cs : cs[i].key = CellKey(c[1], c[2])}) = 1

\* C18 witness: a grid of more than one row and more than one column, of
\* different width and height, has been rendered
C18_Witness ==
  /\ rendered # NotRendered /\ grid # Null
  /\ grid.width > 1 /\ grid.height > 1 /\ grid.width # grid.height
  /\ Cardinality(DOMAIN rendered.cells) = grid.width * grid.height

\* C19: every rendered cell shows the occupant's icon if the cell is occupied,
\* else the structure icon if the cell carries any structure marker, else the
\* empty icon; a coordinate without an entry shows the empty icon
C19_OccupantThenStructureThenEmpty ==
  (rendered # NotRendered /\ grid # Null) =>
    \A i \in DOMAIN rendered.cells :
      LET cell == CellAt(grid, rendered.cells[i].key)
      IN rendered.cells[i].content =
           IF OccupiedBy(cell) # NoValue THEN OccupantIcon(OccupiedBy(cell))
           ELSE IF StructureOf(cell) # NoValue THEN BuildingIcon
           ELSE EmptyIcon

\* a step request is outstanding
StepRequestOut(s) == s.kind = "step" /\ s.pc = "post"

\* C20: a step request comes into being only as the one request of a step()
\* that has just been invoked (stepping goes from false to true), it is
\* outstanding only while that step() runs, and the backend's step counter
\* advances only by one and only as one outstanding step request is used up;
\* no other operation sends one and none is sent again
C20_OneStepRequestPerCall ==
  /\ [](\A s \in InFlight : s.kind = "step" => stepping)
  /\ [][\A t \in BagToSet(ops') :
          (StepRequestOut(t) /\ CopiesIn(t, ops') > CopiesIn(t, ops)) =>
            /\ ops' = ops (+) SetToBag({t})
            /\ ~stepping /\ stepping']_vars
  /\ [][bstep' > bstep =>
          /\ bstep' = bstep + 1
          /\ \E s \in InFlight :
               StepRequestOut(s) /\ (Gone(s) \/ Moved(s, "enhanced"))]_vars

\* C20 witness: a step request reached the backend, its answer was lost, the
\* step() has returned with an error and nothing is in flight
C20_Witness ==
  /\ NoneInFlight
  /\ bstep = 1
  /\ error = Err("Failed to step simulation")
  /\ ~stepping
  /\ grid = GridAt(0)

\* ------------------------------------------------------- overlapping calls
\* the same program in a run that lets one more store call be in flight
InitOverlap == InitWith(MaxOps + 1)

SpecOverlap == InitOverlap /\ [][Next]_vars

\* a step() is in flight / a loadAllData() is in flight
StepInFlight(s) == s \in InFlight /\ s.kind = "step"
LoadInFlight(s) ==
  /\ s \in InFlight
  /\ s.kind = "load" \/ (s.kind \in {"reset", "probe"} /\ s.pc \in {"basic", "enhanced"})

\* C21: with the page's guards at most one step() is in flight, and no step()
\* is in flight together with a load()
C21_NoOverlappingStepOrLoad ==
  /\ \A s \in InFlight : StepInFlight(s) => CopiesIn(s, ops) = 1
  /\ Cardinality({s \in InFlight : s.kind = "step"}) <= 1
  /\ ~(\E s, t \in InFlight : StepInFlight(s) /\ LoadInFlight(t))

\* C22: whatever else is in flight, a load whose basic batch completes and a
\* step whose request is answered each write their own three values over the
\* snapshot, and returning from the enhanced batch writes none of them: after
\* two overlapping successful calls the snapshot is that of the one whose
\* response resolved last
C22_LastResponseWins ==
  [][\A s \in InFlight :
       /\ BasicBatchDone(s) =>
            /\ grid' = BatchValue(s, "g", GridAt(bstep))
            /\ logs' = BatchValue(s, "l", LogsAt(bstep)).logs
            /\ agents' = BatchValue(s, "a", AgentsAt(bstep))
       /\ StepResponded(s) =>
            /\ grid' = StepResultAt(bstep').grid
            /\ logs' = StepResultAt(bstep').logs
            /\ agents' = StepResultAt(bstep').agents
       /\ Completed(s) => UNCHANGED <<grid, logs, agents>>]_vars

\* C22 witness: a step and a load overlap, both have their responses, the
\* load's came last although the step's carries the later backend state, and
\* the store holds the load's
C22_Witness ==
  \E s, t \in InFlight :
    /\ s.kind = "step" /\ s.pc = "enhanced"
    /\ t.kind = "load" /\ t.pc = "enhanced"
    /\ bstep = 1
    /\ grid = GridAt(0)

\* C23: stepping is true exactly when a step() is in flight, be it waiting for
\* its step request or for the enhanced batch that follows
C23_SteppingWhileStepInFlight ==
  stepping <=> (\E s \in InFlight : StepInFlight(s))

\* C23 witness: a step's request has been answered, its enhanced batch is
\* outstanding and stepping is still true
C23_Witness ==
  /\ stepping
  /\ \E s \in InFlight : s.kind = "step" /\ s.pc = "enhanced"
  /\ bstep = 1

\* a call that has set loading is in flight: a loadAllData, or a reset from its
\* first line on
LoadingCallInFlight(s) ==
  s \in InFlight /\ s.kind \in {"load", "reset", "probe"} /\ (s.kind = "probe" => s.pc # "post")

\* C25: once the provider is mounted, loading is true only while a call that
\* set it is in flight
C25_LoadingOnlyWhileLoading ==
  (mounted /\ loading) => \E s \in InFlight : LoadingCallInFlight(s)


\* the values loadAllData's catch writes over the snapshot
HoldsFallback == grid = Null /\ logs = <<FallbackLog>> /\ agents = {}

\* C26: the store is never connected while grid, logs and agents hold the
\* fallback values written by a failed load
C26_ConnectedHoldsBackendData ==
  connectionStatus = "connected" => ~HoldsFallback


\* C27: a disconnected store with nothing in flight shows an error message,
\* and when a load or a step completes successfully the error message is null
C27_ErrorExplainsDisconnected ==
  /\ []((connectionStatus = "disconnected" /\ NoneInFlight) => error # Null)
  /\ [][\A s \in InFlight :
          (Completed(s) /\ s.kind \in LoadKinds \cup {"step"}) => error' = Null]_vars


\* C28: after the mount effect has run, the status is connecting only while a
\* load is in flight
C28_ConnectingOnlyWhileLoading ==
  connectionStatus = "connecting" => (~mounted \/ \E s \in InFlight : LoadInFlight(s))

\* C28 witness: a load started from the Refresh button on a connected store is
\* in flight and the status is connecting again
C28_Witness ==
  /\ mounted /\ connectionStatus = "connecting"
  /\ \E s \in InFlight : LoadInFlight(s) /\ s.pc = "enhanced"
  /\ lastUpdated # Null


\* C29: the grid, logs and agents a load stores when its basic batch completes
\* are the backend's values at one and the same step count
C29_LoadStoresOneBackendState ==
  [][\A s \in InFlight :
       BasicBatchDone(s) =>
         \E n \in 0..MaxSteps :
           /\ grid' = GridAt(n)
           /\ logs' = LogsAt(n).logs
           /\ agents' = AgentsAt(n)]_vars


\* ------------------------------------------- the page's advanced controls
\* Debug Info and Raw Grid: disabled={loading || connectionStatus !== 'connected'}
AdvancedEnabled == ~(loading \/ connectionStatus # "connected")

\* a value && ... in JSX: null and undefined render nothing
Truthy(v) == v \notin {Null, Undefined}

\* {showDebug && debugData && (<Card> ... the panel and its close button
DebugPanelShown == showDebug /\ Truthy(debugData)
\* {showRawGrid && rawGridData && (<Card> ...
RawGridPanelShown == showRawGrid /\ Truthy(rawGridData)

\* The page is looked at once the provider's first load has succeeded: the
\* store is connected with the backend's snapshot, and each enhanced field
\* holds what its fetch came back with.
InitPage ==
  /\ grid = GridAt(0)
  /\ logs = LogsAt(0).logs
  /\ agents = AgentsAt(0)
  /\ \E m \in MetricsAnswers, p \in PhaseAnswers, h \in HealthAnswers :
       /\ conditionalMetrics = m.value
       /\ phaseInfo = p.value
       /\ healthStatus = h.value
       /\ ev = EnhancedEvent("load", {f \in {"m", "p", "h"} :
                                        \/ f = "m" /\ ~m.ok
                                        \/ f = "p" /\ ~p.ok
                                        \/ f = "h" /\ ~h.ok})
  /\ loading = FALSE
  /\ stepping = FALSE
  /\ error = Null
  /\ connectionStatus = "connected"
  /\ lastUpdated = Now
  /\ mounted = TRUE
  /\ closureStatus = "connecting"
  /\ ops = EmptyBag
  /\ bstep = 0
  /\ healthCheckInterval = "set"
  /\ call = NoCall
  /\ callResult = Pending
  /\ rendered = NotRendered
  /\ slots = MaxOps
  /\ showDebug = FALSE
  /\ debugData = Null
  /\ debugHandler = HandlerIdle
  /\ showRawGrid = FALSE
  /\ rawGridData = Null
  /\ logPanel = NotRendered

\* Debug Info is clicked: onClick={fetchDebugInfo} runs the page's own
\* fetchDebugInfo, the const of line 36 that shadows the import of line 9.
\* While activations of it run no other event is handled.
ClickDebugInfo ==
  /\ AdvancedEnabled
  /\ debugHandler = HandlerIdle
  /\ debugHandler' = [phase |-> "calling", depth |-> 1, awaited |-> "none"]
  /\ UNCHANGED <<storeVars, mounted, closureStatus, ops, bstep, ev, healthCheckInterval,
                 call, callResult, rendered, slots,
                 showDebug, debugData, showRawGrid, rawGridData, logPanel>>

\* line 38, `await fetchDebugInfo()`: the name is the local const, so the
\* innermost activation calls the handler again, synchronously, before its await
FetchDebugInfoCallsItself ==
  /\ debugHandler.phase = "calling"
  /\ debugHandler.depth < MaxStack
  /\ debugHandler' = [debugHandler EXCEPT !.depth = @ + 1]
  /\ UNCHANGED <<storeVars, mounted, closureStatus, ops, bstep, ev, healthCheckInterval,
                 call, callResult, rendered, slots,
                 showDebug, debugData, showRawGrid, rawGridData, logPanel>>

\* the stack is full: the call in the innermost activation throws a RangeError.
\* Its catch (line 41) logs it and the activation resolves with undefined, or
\* the console.error call overflows as well and the activation rejects; the
\* engine decides which.  The activation below awaits that promise.
FetchDebugInfoOverflows ==
  /\ debugHandler.phase = "calling"
  /\ debugHandler.depth = MaxStack
  /\ \E settled \in {"undefined", "rejected"} :
       debugHandler' = [phase |-> "resuming", depth |-> MaxStack - 1, awaited |-> settled]
  /\ UNCHANGED <<storeVars, mounted, closureStatus, ops, bstep, ev, healthCheckInterval,
                 call, callResult, rendered, slots,
                 showDebug, debugData, showRawGrid, rawGridData, logPanel>>

\* a suspended activation resumes after its await: with a rejection its catch
\* logs and nothing is stored; otherwise data is undefined, and lines 39-40
\* store it and set showDebug.  Either way it resolves with undefined for the
\* activation that awaits it.
FetchDebugInfoResumes ==
  /\ debugHandler.phase = "resuming"
  /\ IF debugHandler.awaited = "rejected"
       THEN UNCHANGED <<showDebug, debugData>>
       ELSE /\ debugData' = Undefined
            /\ showDebug' = TRUE
  /\ debugHandler' = IF debugHandler.depth = 1
                       THEN HandlerIdle
                       ELSE [phase |-> "resuming", depth |-> debugHandler.depth - 1,
                             awaited |-> "undefined"]
  /\ UNCHANGED <<storeVars, mounted, closureStatus, ops, bstep, ev, healthCheckInterval,
                 call, callResult, rendered, slots,
                 showRawGrid, rawGridData, logPanel>>

\* Raw Grid is clicked: fetchRawGrid calls the client's fetchGridRaw()
ClickRawGrid ==
  /\ AdvancedEnabled
  /\ debugHandler = HandlerIdle
  /\ call = NoCall \/ callResult # Pending
  /\ \E f \in ClientFunctions :
       /\ f.fn = "fetchGridRaw"
       /\ call' = [fn |-> f.fn, endpoint |-> f.endpoint, method |-> f.method,
                   answer |-> Pending]
  /\ callResult' = Pending
  /\ UNCHANGED <<storeVars, mounted, closureStatus, ops, bstep, ev, healthCheckInterval,
                 rendered, pageVars, slots>>

\* fetchRawGrid after its await: the response is stored and the panel opened,
\* or the catch logs the error
FetchRawGridSettles ==
  /\ debugHandler = HandlerIdle
  /\ call # NoCall /\ callResult = Pending
  /\ \E answer \in TransportAnswers :
       /\ call' = [call EXCEPT !.answer = answer]
       /\ callResult' = apiCall(answer)
       /\ IF apiCall(answer).kind = "resolved"
            THEN /\ rawGridData' = apiCall(answer).value
                 /\ showRawGrid' = TRUE
            ELSE UNCHANGED <<rawGridData, showRawGrid>>
  /\ UNCHANGED <<storeVars, mounted, closureStatus, ops, bstep, ev, healthCheckInterval,
                 rendered, slots, showDebug, debugData, debugHandler, logPanel>>

\* the raw grid panel's close button
CloseRawGrid ==
  /\ debugHandler = HandlerIdle
  /\ RawGridPanelShown
  /\ showRawGrid' = FALSE
  /\ UNCHANGED <<storeVars, mounted, closureStatus, ops, bstep, ev, healthCheckInterval,
                 call, callResult, rendered, slots,
                 showDebug, debugData, debugHandler, rawGridData, logPanel>>

\* The debug panel's close button is part of the panel, which is rendered only
\* when DebugPanelShown; no step of the page makes debugData truthy, so the
\* button has no action here.
NextPage ==
  \/ ClickDebugInfo
  \/ FetchDebugInfoCallsItself
  \/ FetchDebugInfoOverflows
  \/ FetchDebugInfoResumes
  \/ ClickRawGrid
  \/ FetchRawGridSettles
  \/ CloseRawGrid

SpecPage == InitPage /\ [][NextPage]_vars

\* C30: the Debug Info handler does not call itself; while it runs, a GET /debug
\* request has been issued through the API client; and the debug panel is
\* opened only over a stored response
C30_DebugInfoFetchesOnce ==
  /\ debugHandler.depth <= 1
  /\ debugHandler.phase # "idle" =>
       (call # NoCall /\ call.fn = "fetchDebugInfo" /\ call.endpoint = "/debug")
  /\ showDebug => Truthy(debugData)


\* ------------------------------------------------ the message log on its own
\* A log line is looked into here, so it is a sequence of characters.  The
\* texts getMessageStyle searches for:
ScoutText == <<"S", "c", "o", "u", "t">>
BracketedScoutText == <<"[">> \o ScoutText \o <<"]">>
BuilderText == <<"B", "u", "i", "l", "d", "e", "r">>
BracketedBuilderText == <<"[">> \o BuilderText \o <<"]">>
StrategistText == <<"S", "t", "r", "a", "t", "e", "g", "i", "s", "t">>
BracketedStrategistText == <<"[">> \o StrategistText \o <<"]">>
ErrorTag == <<"[", "E", "R", "R", "O", "R", "]">>
StepTag == <<"[", "S", "t", "e", "p">>

\* String.prototype.includes: pat occurs in line as a contiguous run
Includes(line, pat) ==
  \E i \in 1..(Len(line) - Len(pat) + 1) : SubSeq(line, i, i + Len(pat) - 1) = pat

\* the pieces the lines handed to the component are put together from: the
\* searched texts, an opening bracket, and a lower-case word none of them matches
Fragments ==
  {ScoutText, BuilderText, StrategistText, ErrorTag, StepTag,
   <<"[">>, <<"s", "c", "o", "u", "t">>}
\* the lines: empty, one fragment, or two fragments in a row
Lines == {<<>>} \cup Fragments \cup {f \o g : f, g \in Fragments}
\* the logs prop: up to MaxLogs lines
LogProps == UNION {[1..n -> Lines] : n \in 0..MaxLogs}

\* variant: a getMessageStyle that looks for [ERROR] before the agent names
getMessageStyleErrorFirst(log) ==
  IF Includes(log, ErrorTag) THEN "text-red-500 font-semibold"
  ELSE IF Includes(log, BracketedScoutText) \/ Includes(log, ScoutText)
    THEN "text-blue-500"
  ELSE IF Includes(log, BracketedBuilderText) \/ Includes(log, BuilderText)
    THEN "text-yellow-600"
  ELSE IF Includes(log, BracketedStrategistText) \/ Includes(log, StrategistText)
    THEN "text-green-600"
  ELSE IF Includes(log, StepTag) THEN "text-purple-500"
  ELSE "text-muted-foreground"

\* getMessageStyle: the if / else-if chain of lines 16-27
getMessageStyle(log) ==
  IF Includes(log, BracketedScoutText) \/ Includes(log, ScoutText)
    THEN "text-blue-500"
  ELSE IF Includes(log, BracketedBuilderText) \/ Includes(log, BuilderText)
    THEN "text-yellow-600"
  ELSE IF Includes(log, BracketedStrategistText) \/ Includes(log, StrategistText)
    THEN "text-green-600"
  ELSE IF Includes(log, ErrorTag) THEN "text-red-500 font-semibold"
  ELSE IF Includes(log, StepTag) THEN "text-purple-500"
  ELSE "text-muted-foreground"

\* what MessageLog returns for a logs prop: the placeholder paragraph, or the
\* list with one <li key={index} className={getMessageStyle(log)}>{log}</li>
\* per element
MessageLogRender(ls) ==
  IF Len(ls) = 0
    THEN [tag |-> "placeholder", count |-> 0]
    ELSE [tag |-> "list", count |-> Len(ls),
          items |-> [i \in 1..Len(ls) |->
                       [key |-> i - 1, className |-> getMessageStyle(ls[i]),
                        text |-> ls[i]]]]

InitLog ==
  /\ logs \in LogProps
  /\ grid = Null
  /\ agents = {}
  /\ conditionalMetrics = Null
  /\ phaseInfo = Null
  /\ healthStatus = Null
  /\ loading = TRUE
  /\ stepping = FALSE
  /\ error = Null
  /\ connectionStatus = "connecting"
  /\ lastUpdated = Null
  /\ mounted = FALSE
  /\ closureStatus = "connecting"
  /\ ops = EmptyBag
  /\ bstep = 0
  /\ ev = NoEvent
  /\ healthCheckInterval = "unset"
  /\ call = NoCall
  /\ callResult = Pending
  /\ rendered = NotRendered
  /\ slots = MaxOps
  /\ showDebug = FALSE
  /\ debugData = Null
  /\ debugHandler = HandlerIdle
  /\ showRawGrid = FALSE
  /\ rawGridData = Null
  /\ logPanel = NotRendered

\* the component renders the logs it is given
RenderLog ==
  /\ logPanel = NotRendered
  /\ logPanel' = MessageLogRender(logs)
  /\ UNCHANGED <<storeVars, mounted, closureStatus, ops, bstep, ev, healthCheckInterval,
                 call, callResult, rendered, slots,
                 showDebug, debugData, debugHandler, showRawGrid, rawGridData>>

NextLog ==
  \/ RenderLog

SpecLog == InitLog /\ [][NextLog]_vars

\* the class the fixed order Scout, Builder, Strategist, [ERROR], [Step,
\* default gives a line
StyleInOrder(line) ==
  CASE Includes(line, ScoutText) -> "text-blue-500"
    [] ~Includes(line, ScoutText) /\ Includes(line, BuilderText) -> "text-yellow-600"
    [] ~Includes(line, ScoutText) /\ ~Includes(line, BuilderText)
         /\ Includes(line, StrategistText) -> "text-green-600"
    [] ~Includes(line, ScoutText) /\ ~Includes(line, BuilderText)
         /\ ~Includes(line, StrategistText) /\ Includes(line, ErrorTag) ->
           "text-red-500 font-semibold"
    [] ~Includes(line, ScoutText) /\ ~Includes(line, BuilderText)
         /\ ~Includes(line, StrategistText) /\ ~Includes(line, ErrorTag)
         /\ Includes(line, StepTag) -> "text-purple-500"
    [] OTHER -> "text-muted-foreground"

\* C24: the rendered log has one entry per element of logs, in the order of
\* logs, each with the text of its line and the class of the first match in
\* the order Scout, Builder, Strategist, [ERROR], [Step, default; a line that
\* contains "Scout" is styled as Scout whatever else it contains
C24_FirstMatchStyling ==
  logPanel # NotRendered =>
    /\ logPanel.count = Len(logs)
    /\ (logPanel.tag = "placeholder") <=> (logs = <<>>)
    /\ logPanel.tag = "list" =>
         /\ DOMAIN logPanel.items = 1..Len(logs)
         /\ \A i \in 1..Len(logs) :
              /\ logPanel.items[i].text = logs[i]
              /\ logPanel.items[i].key = i - 1
              /\ logPanel.items[i].className = StyleInOrder(logs[i])
              /\ Includes(logs[i], ScoutText) =>
                   logPanel.items[i].className = "text-blue-500"

\* C24 witness: two lines have been rendered in order; the first contains
\* both [ERROR] and Scout and is styled as Scout, the second contains [Step
\* and Strategist and is styled as Strategist
C24_Witness ==
  /\ logPanel # NotRendered /\ logPanel.tag = "list"
  /\ Len(logs) = 2
  /\ logs[1] = ErrorTag \o ScoutText
  /\ logs[2] = StepTag \o StrategistText
  /\ logPanel.items[1].className = "text-blue-500"
  /\ logPanel.items[2].className = "text-green-600"
====
